---- MODULE Spec2Model ----
(***************************************************************************)
(* Model of the analysis helpers of the notebook                           *)
(* keys/03.1-modules-vs-distributed-processing.ipynb:                      *)
(*   label2TR      stimulus timing -> one label per TR                     *)
(*   shift_timing  shift of the label vector by the hemodynamic lag        *)
(*   normalize     z-scoring of the feature matrix within each run         *)
(*   decode        leave-one-run-out cross-validation of a classifier      *)
(* and of the cells that call them: the alignment cell and the two         *)
(* exercise cells.                                                         *)
(*                                                                         *)
(* Times (onsets, TR) are counted in units of 0.5 s, so that TR = 1.5 s is *)
(* 3 and the quotient time / TR is a ratio of integers.  Arrays indexed    *)
(* from 0 in the notebook are functions on 0..n-1 here.                    *)
(***************************************************************************)
EXTENDS Integers, Sequences, FiniteSets, TLC

\* ------------------------------------------------------------------------
\* Bounds of the model
\* ------------------------------------------------------------------------
MaxEvents == 3
MaxRuns == 3

CondLabels == {1, 2}
\* onsets of -2.0 s, 0.0 s and 4.5 s
Onsets == {-4, 0, 9}
\* pairs <<TR, TRs_run>>: TR = 1.5 s with 4 and 2 scans per run, and the
\* pairs with a TR or a scan count that is not positive
ParamValues == {<<3, 4>>, <<3, 2>>, <<-3, 4>>, <<0, 4>>, <<3, 0>>, <<3, -1>>}

MaxLen == 3
MaxShift == 4

MaxRows == 4
\* rows of the feature matrix: two voxels each
RowValues == {<<0, 1>>, <<1, 1>>}
Features == {1, 2}

\* number of runs of the VDC data set (utils)
vdc_n_runs == 3
\* TR and hemodynamic lag of the VDC data set (utils): 1.5 s and 4.5 s
vdc_TR == 3
vdc_hrf_lag == 9
\* run ids offered to normalize: those of the data set and one beyond them
RunIdValues == 0..vdc_n_runs

\* fold ids offered to decode
FoldIds == {-2, -1, 0, 1}
\* classifiers offered to decode: one that validates its input as the
\* scikit-learn estimators do (LinearSVC), and one that only has fit and score
Kinds == {"validating", "plain"}
\* the labels of the data set: 1 Faces, 2 Scenes, 3 Objects
StimLabels == {1, 2, 3}
\* row counts of X and y relative to the length of cv_ids
Shapes == {<<0, 0>>, <<1, 1>>, <<-1, -1>>, <<1, 0>>, <<0, -1>>}

VARIABLES
    pc,             \* position of the running function
    err,            \* the exception that ended it, "" when none
    stim_label,     \* label2TR argument: events in file order, row 0 = cond,
                    \*   row 2 = onset, row 5 = run (1-based)
    num_runs,       \* label2TR argument
    TR,             \* label2TR argument
    TRs_run,        \* label2TR argument
    events_run,     \* label2TR local
    run,            \* label2TR outer loop variable
    i,              \* label2TR inner loop variable
    stim_label_TR,  \* label2TR local and result
    writes,         \* history: the assignments stim_label_TR[TR_idx] = ...
                    \*   executed so far, in execution order
    label_TR,           \* shift_timing argument
    TR_shift_size,      \* shift_timing argument
    label_TR_shifted,   \* shift_timing result
    bold_data_,         \* normalize argument: sequence of rows
    run_ids,            \* normalize argument: run of each row
    scaler,             \* normalize local: the StandardScaler object
    data,               \* normalize local: list of transformed run blocks
    r,                  \* normalize loop variable
    normalized_data,    \* normalize result
    row_src,            \* history: for each row appended to data, the
                        \*   position in bold_data_ it was taken from
    X_arg,              \* decode argument X: sequence of rows
    y_arg,              \* decode argument y: label of each row
    cv_ids,             \* decode argument: fold id of each row
    model,              \* decode argument: the classifier object (its id)
    heap,               \* the classifier objects: id -> kind and fitted state
    models,             \* decode local and result: list of object ids
    scores,             \* decode local and result
    ps,                 \* decode local: the folds of PredefinedSplit(cv_ids)
    fold_i,             \* decode loop position in ps (0-based)
    splits,             \* history: the (train_index, test_index) pairs used
    labels,             \* notebook global: label of each labeled row
    run_ids_so,         \* notebook global of exercise 1
    run_ids_fo,         \* notebook global of exercise 2
    cell                \* the exercise cell being executed, 0 when none

labelVars == <<stim_label, num_runs, TR, TRs_run, events_run, run, i,
               stim_label_TR, writes>>

shiftVars == <<label_TR, TR_shift_size, label_TR_shifted>>

normVars == <<bold_data_, run_ids, scaler, data, r, normalized_data, row_src>>

decodeVars == <<X_arg, y_arg, cv_ids, model, heap, models, scores, ps, fold_i,
                splits>>

nbVars == <<labels, run_ids_so, run_ids_fo, cell>>

vars == <<pc, err, labelVars, shiftVars, normVars, decodeVars, nbVars>>

\* ------------------------------------------------------------------------
\* Python / numpy primitives
\* ------------------------------------------------------------------------
Abs(x) == IF x < 0 THEN -x ELSE x

\* int(a / b) for b # 0: true division, then truncation toward zero
PyIntDiv(a, b) ==
    IF (a < 0) = (b < 0) THEN Abs(a) \div Abs(b) ELSE -(Abs(a) \div Abs(b))

\* np.zeros((n, 1)) for n >= 0
np_zeros(n) == [p \in 0..(n - 1) |-> 0]

Size(v) == Cardinality(DOMAIN v)

\* v[idx] = val accepts -Size(v) <= idx < Size(v); a negative idx counts from
\* the end
IndexOK(v, idx) == idx >= -Size(v) /\ idx < Size(v)

NormIndex(v, idx) == IF idx < 0 THEN idx + Size(v) ELSE idx

\* variant: an entry that already holds a label keeps it
SetItem_KeepFirst(v, idx, val) ==
    IF v[NormIndex(v, idx)] # 0 THEN v ELSE [v EXCEPT ![NormIndex(v, idx)] = val]

SetItem(v, idx, val) == [v EXCEPT ![NormIndex(v, idx)] = val]

\* ------------------------------------------------------------------------
\* label2TR
\* ------------------------------------------------------------------------
Event == [cond : CondLabels, onset : Onsets, run : 1..MaxRuns]

\* event lists as the loader gives them: the runs' events concatenated in run
\* order
RunOrdered(s) == \A k \in 1..(Len(s) - 1) : s[k].run <= s[k + 1].run

EventLists(nr) ==
    UNION { { s \in [1..n -> Event] :
                /\ \A k \in 1..n : s[k].run <= nr
                /\ RunOrdered(s) } : n \in 0..MaxEvents }

\* time_idx = run * (events_run) + i
time_idx(run_, i_, events_run_) == run_ * events_run_ + i_

\* TR_idx = int(time / TR) + (run * (TRs_run - 1))
RunOffset(run_, TRs_run_) == run_ * (TRs_run_ - 1)

TR_idx(time, TR_, run_, TRs_run_) == PyIntDiv(time, TR_) + RunOffset(run_, TRs_run_)

\* length of the preset array: np.zeros((TRs_run * 3, 1))
PresetLen(num_runs_, TRs_run_) == TRs_run_ * 3

\* the variables of the functions that are not running
LabelIdle ==
    /\ stim_label = <<>>
    /\ num_runs = 0
    /\ TR = 0
    /\ TRs_run = 0
    /\ events_run = 0
    /\ run = 0
    /\ i = 0
    /\ stim_label_TR = <<>>
    /\ writes = <<>>

ShiftIdle ==
    /\ label_TR = <<>>
    /\ TR_shift_size = 0
    /\ label_TR_shifted = <<>>

\* StandardScaler(): nothing fitted yet.  The fitted state is kept as the
\* exact sums it is computed from: n = n_samples_seen_, S[f] = n * mean_[f],
\* SS[f] = sum of squares, so that var_[f] = (n * SS[f] - S[f]^2) / n^2.
StandardScaler == [n |-> 0, S |-> [f \in Features |-> 0], SS |-> [f \in Features |-> 0]]

NormIdle ==
    /\ bold_data_ = <<>>
    /\ run_ids = <<>>
    /\ scaler = StandardScaler
    /\ data = <<>>
    /\ r = 0
    /\ normalized_data = <<>>
    /\ row_src = <<>>

DecodeIdle ==
    /\ X_arg = <<>>
    /\ y_arg = <<>>
    /\ cv_ids = <<>>
    /\ model = 0
    /\ heap = <<>>
    /\ models = <<>>
    /\ scores = <<>>
    /\ ps = <<>>
    /\ fold_i = 0
    /\ splits = <<>>

NbIdle ==
    /\ labels = <<>>
    /\ run_ids_so = <<>>
    /\ run_ids_fo = <<>>
    /\ cell = 0

InitLabel ==
    /\ pc = "label2TR"
    /\ ShiftIdle
    /\ NormIdle
    /\ DecodeIdle
    /\ NbIdle
    /\ err = ""
    /\ num_runs \in 1..MaxRuns
    /\ \E pv \in ParamValues : TR = pv[1] /\ TRs_run = pv[2]
    /\ stim_label \in EventLists(num_runs)
    /\ events_run = 0
    /\ run = 0
    /\ i = 0
    /\ stim_label_TR = <<>>
    /\ writes = <<>>

\* lines 141-148: events/run, the preset array, entry of the run loop
Label2TR_Enter ==
    /\ pc = "label2TR"
    /\ events_run' = Len(stim_label) \div num_runs
    /\ IF PresetLen(num_runs, TRs_run) < 0
       THEN /\ pc' = "error"
            /\ err' = "ValueError"
            /\ UNCHANGED <<stim_label_TR, run>>
       ELSE /\ pc' = "loop"
            /\ err' = ""
            /\ stim_label_TR' = np_zeros(PresetLen(num_runs, TRs_run))
            \* a run without events to visit leaves the inner loop empty
            /\ run' = IF Len(stim_label) \div num_runs = 0 THEN num_runs ELSE 0
    /\ i' = 0
    /\ UNCHANGED <<stim_label, num_runs, TR, TRs_run, writes, shiftVars, normVars, decodeVars, nbVars>>

\* lines 151-163: one pass of the inner loop body
Label2TR_Step ==
    /\ pc = "loop"
    /\ run < num_runs
    /\ i < events_run
    /\ LET tidx == time_idx(run, i, events_run)
           time == stim_label[tidx + 1].onset
           cond == stim_label[tidx + 1].cond
       IN  IF TR = 0
           THEN \* time / 0 is inf or nan, and int() of it raises
                /\ pc' = "error"
                /\ err' = IF time = 0 THEN "ValueError" ELSE "OverflowError"
                /\ UNCHANGED <<stim_label_TR, writes, run, i>>
           ELSE LET idx == TR_idx(time, TR, run, TRs_run)
                IN  IF ~IndexOK(stim_label_TR, idx)
                    THEN /\ pc' = "error"
                         /\ err' = "IndexError"
                         /\ UNCHANGED <<stim_label_TR, writes, run, i>>
                    ELSE /\ pc' = "loop"
                         /\ err' = ""
                         /\ stim_label_TR' = SetItem(stim_label_TR, idx, cond)
                         /\ writes' = Append(writes,
                                [event |-> tidx,
                                 run   |-> run,
                                 scan  |-> PyIntDiv(time, TR),
                                 pos   |-> NormIndex(stim_label_TR, idx),
                                 cond  |-> cond])
                         /\ IF i + 1 < events_run
                            THEN /\ i' = i + 1
                                 /\ run' = run
                            ELSE /\ i' = 0
                                 /\ run' = run + 1
    /\ UNCHANGED <<stim_label, num_runs, TR, TRs_run, events_run, shiftVars, normVars, decodeVars, nbVars>>

\* line 165
Label2TR_Return ==
    /\ pc = "loop"
    /\ run >= num_runs
    /\ pc' = "done"
    /\ UNCHANGED <<err, labelVars, shiftVars, normVars, decodeVars, nbVars>>

NextLabel == Label2TR_Enter \/ Label2TR_Step \/ Label2TR_Return

SpecLabel == InitLabel /\ [][NextLabel]_vars

\* ------------------------------------------------------------------------
\* Properties of label2TR
\* ------------------------------------------------------------------------
ValidParams == TR > 0 /\ TRs_run >= 1

\* every run contributes the same number of events, so that the event in
\* column k of stim_label belongs to run k div events_run
EvenRuns ==
    /\ Len(stim_label) = num_runs * (Len(stim_label) \div num_runs)
    /\ \A k \in 1..Len(stim_label) :
          stim_label[k].run - 1 = (k - 1) \div (Len(stim_label) \div num_runs)

OnsetsInRange ==
    \A k \in 1..Len(stim_label) :
        stim_label[k].onset >= 0 /\ stim_label[k].onset < TRs_run * TR

\* the run (0-based) the event of a write belongs to, from row 5 of stim_label
OwnRun(w) == stim_label[w.event + 1].run - 1

\* r * TRs_per_run + floor(onset / TR_seconds)
DirectIndex(run_, onset, TR_, TRs_run_) == run_ * TRs_run_ + (onset \div TR_)

\* C1: with TR > 0, runs of TRs_run scans each and every onset inside its
\* run, each event of run r with onset t is written at index
\* r * TRs_run + floor(t / TR).
C1_DirectIndex ==
    (ValidParams /\ EvenRuns /\ OnsetsInRange) =>
        \A k \in 1..Len(writes) :
            writes[k].pos = DirectIndex(OwnRun(writes[k]),
                                        stim_label[writes[k].event + 1].onset,
                                        TR, TRs_run)

\* C2: when label2TR returns, every event of the input has been written, and
\* with the offset of the run it belongs to, however the events are spread
\* over the runs.
C2_EveryEventLabelled ==
    (pc = "done" /\ ValidParams /\ OnsetsInRange) =>
        \A k \in 1..Len(stim_label) :
            \E n \in 1..Len(writes) :
                /\ writes[n].event = k - 1
                /\ writes[n].run = stim_label[k].run - 1

\* C3: for TR > 0 and TRs_run >= 1 the returned vector has num_runs * TRs_run entries,
\* and an empty event list gives an all-zero vector and no error.
C3_OutputLength ==
    ValidParams =>
        /\ pc = "done" => Size(stim_label_TR) = num_runs * TRs_run
        /\ Len(stim_label) = 0 =>
              /\ pc # "error"
              /\ pc = "done" => \A p \in DOMAIN stim_label_TR : stim_label_TR[p] = 0

\* C4: no write is made for an event whose scan index lies outside
\* 0..TRs_run-1, and every write lands in the slice of the event's own run.
C4_WritesInOwnSlice ==
    (ValidParams /\ EvenRuns) =>
        \A k \in 1..Len(writes) :
            /\ writes[k].scan \in 0..(TRs_run - 1)
            /\ writes[k].pos >= OwnRun(writes[k]) * TRs_run
            /\ writes[k].pos < (OwnRun(writes[k]) + 1) * TRs_run

\* C5: with TR <= 0 or TRs_run < 1 label2TR writes no label and returns no
\* vector.
C5_InvalidParamsRejected ==
    (TR <= 0 \/ TRs_run < 1) => (pc # "done" /\ writes = <<>>)

SetMax(S) == CHOOSE x \in S : \A y \in S : y <= x

\* the events (columns of stim_label, 0-based) written to position p
EventsAt(p) == { writes[k].event : k \in { n \in 1..Len(writes) : writes[n].pos = p } }

\* C6: in the returned vector, an entry that one or more events were written
\* to holds the label of the one that is last in the input order.
C6_LastWriteWins ==
    pc = "done" =>
        \A p \in DOMAIN stim_label_TR :
            EventsAt(p) # {} =>
                stim_label_TR[p] = stim_label[SetMax(EventsAt(p)) + 1].cond

\* two events of different runs, with different labels, written to one entry
C6_Witness ==
    /\ pc = "done"
    /\ ValidParams
    /\ OnsetsInRange
    /\ \E a, b \in 1..Len(writes) :
          /\ writes[a].event < writes[b].event
          /\ writes[a].pos = writes[b].pos
          /\ writes[a].cond # writes[b].cond
          /\ OwnRun(writes[a]) # OwnRun(writes[b])

\* ------------------------------------------------------------------------
\* shift_timing (utils)
\* ------------------------------------------------------------------------
\* np.vstack((a, b)) of two column vectors
np_vstack(a, b) ==
    [p \in 0..(Size(a) + Size(b) - 1) |-> IF p < Size(a) THEN a[p] ELSE b[p - Size(a)]]

\* v[0:n]
SliceTo(v, n) == [p \in 0..((IF n < Size(v) THEN n ELSE Size(v)) - 1) |-> v[p]]

\* variant: the labels pushed past the end come back at the start (np.roll)
shift_timing_Roll(label_TR_, TR_shift_size_) ==
    [p \in DOMAIN label_TR_ |->
        label_TR_[(p - TR_shift_size_) % Size(label_TR_)]]

\* zero-pad the column from the top, then cut the rows shifted out of the
\* time line
shift_timing(label_TR_, TR_shift_size_) ==
    SliceTo(np_vstack(np_zeros(TR_shift_size_), label_TR_), Size(label_TR_))

ShiftScenario == [p \in 0..5 |-> p + 1]

LabelVectors ==
    UNION { [0..(n - 1) -> {0} \cup CondLabels] : n \in 0..MaxLen }
        \cup {ShiftScenario}

InitShift ==
    /\ pc = "shift_timing"
    /\ err = ""
    /\ LabelIdle
    /\ NormIdle
    /\ DecodeIdle
    /\ NbIdle
    /\ label_TR \in LabelVectors
    /\ TR_shift_size \in 0..MaxShift
    /\ label_TR_shifted = <<>>

\* line 209: stim_label_TR_shifted = shift_timing(stim_label_TR, shift_size)
ShiftCall ==
    /\ pc = "shift_timing"
    /\ label_TR_shifted' = shift_timing(label_TR, TR_shift_size)
    /\ pc' = "shifted"
    /\ UNCHANGED <<err, labelVars, normVars, decodeVars, nbVars, label_TR, TR_shift_size>>

NextShift == ShiftCall

SpecShift == InitShift /\ [][NextShift]_vars

\* C7: the shift by k >= 0 gives a new vector of the same length with
\* shifted[p] = original[p - k] for p >= k and 0 for p < k; nothing wraps
\* around, the shift by 0 is the identity and the argument is not modified.
C7_ShiftTiming ==
    [][ (pc = "shift_timing" /\ pc' = "shifted") =>
          /\ label_TR' = label_TR
          /\ DOMAIN label_TR_shifted' = DOMAIN label_TR
          /\ \A p \in DOMAIN label_TR :
                label_TR_shifted'[p] =
                    IF p >= TR_shift_size THEN label_TR[p - TR_shift_size] ELSE 0
          /\ TR_shift_size = 0 => label_TR_shifted' = label_TR ]_vars

\* [1,2,3,4,5,6] shifted by 2 is [0,0,1,2,3,4]
C7_Witness ==
    /\ pc = "shifted"
    /\ label_TR = ShiftScenario
    /\ TR_shift_size = 2
    /\ label_TR_shifted = [p \in 0..5 |-> IF p < 2 THEN 0 ELSE p - 1]

\* ------------------------------------------------------------------------
\* normalize
\* ------------------------------------------------------------------------
RECURSIVE SumSeq(_)
SumSeq(s) == IF s = <<>> THEN 0 ELSE Head(s) + SumSeq(Tail(s))

RECURSIVE Concat(_)
Concat(ss) == IF ss = <<>> THEN <<>> ELSE Head(ss) \o Concat(Tail(ss))

Column(X, f) == [k \in 1..Len(X) |-> X[k][f]]

Squares(s) == [k \in 1..Len(s) |-> s[k] * s[k]]

\* positions selected by the boolean mask run_ids == r_, in row order
RECURSIVE MaskIdxFrom(_, _, _)
MaskIdxFrom(ids, r_, k) ==
    IF k > Len(ids) THEN <<>>
    ELSE (IF ids[k] = r_ THEN <<k>> ELSE <<>>) \o MaskIdxFrom(ids, r_, k + 1)

MaskIdx(ids, r_) == MaskIdxFrom(ids, r_, 1)

\* bold_data_[run_ids == r, :]
SelectRows(X, ids, r_) == [k \in 1..Len(MaskIdx(ids, r_)) |-> X[MaskIdx(ids, r_)[k]]]

\* StandardScaler.partial_fit: the samples of X enter the running statistics
partial_fit(sc, X) ==
    [n  |-> sc.n + Len(X),
     S  |-> [f \in Features |-> sc.S[f] + SumSeq(Column(X, f))],
     SS |-> [f \in Features |-> sc.SS[f] + SumSeq(Squares(Column(X, f)))]]

\* variant: fit without the reset of the statistics of the earlier fit
fit_NoReset(sc, X) == partial_fit(sc, X)

\* StandardScaler.fit: reset, then partial_fit
fit(sc, X) == partial_fit(StandardScaler, X)

\* n^2 * var_[f]
VarNum(sc, f) == sc.n * sc.SS[f] - sc.S[f] * sc.S[f]

\* variant: the scale is sqrt(var_) also where var_ = 0
transform_NoFallback(sc, X) ==
    [k \in 1..Len(X) |->
        [f \in Features |->
            [num  |-> sc.n * X[k][f] - sc.S[f],
             den2 |-> VarNum(sc, f)]]]

\* StandardScaler.transform: (x - mean_) / scale_ with scale_ = sqrt(var_),
\* and scale_ = 1 where var_ = 0.  The value num / sqrt(den2) is kept exactly
\* as the pair of num = n * x - S and den2 = n^2 * var_ (n^2 when var_ = 0).
transform(sc, X) ==
    [k \in 1..Len(X) |->
        [f \in Features |->
            [num  |-> sc.n * X[k][f] - sc.S[f],
             den2 |-> IF VarNum(sc, f) = 0 THEN sc.n * sc.n ELSE VarNum(sc, f)]]]

Matrices(n) == [1..n -> RowValues]

InitNorm ==
    /\ pc = "normalize"
    /\ err = ""
    /\ LabelIdle
    /\ ShiftIdle
    /\ DecodeIdle
    /\ NbIdle
    /\ \E n \in 0..MaxRows :
          /\ bold_data_ \in Matrices(n)
          /\ run_ids \in [1..n -> RunIdValues]
    /\ scaler = StandardScaler
    /\ data = <<>>
    /\ r = 0
    /\ normalized_data = <<>>
    /\ row_src = <<>>

\* lines 249-251: the scaler, the empty list, entry of the loop
Normalize_Enter ==
    /\ pc = "normalize"
    /\ pc' = "norm_loop"
    /\ scaler' = StandardScaler
    /\ data' = <<>>
    /\ r' = 0
    /\ UNCHANGED <<err, labelVars, shiftVars, decodeVars, nbVars, bold_data_,
                   run_ids, normalized_data, row_src>>

\* line 252: data.append(scaler.fit_transform(bold_data_[run_ids == r, :]))
Normalize_Step ==
    /\ pc = "norm_loop"
    /\ r < vdc_n_runs
    /\ LET X == SelectRows(bold_data_, run_ids, r)
       IN  IF Len(run_ids) # Len(bold_data_)
           THEN \* the boolean mask does not match the rows of the array
                /\ pc' = "error"
                /\ err' = "IndexError"
                /\ UNCHANGED <<scaler, data, r, row_src>>
           ELSE IF Len(X) = 0
           THEN \* fit rejects an array with 0 samples
                /\ pc' = "error"
                /\ err' = "ValueError"
                /\ UNCHANGED <<scaler, data, r, row_src>>
           ELSE /\ pc' = "norm_loop"
                /\ err' = ""
                /\ scaler' = fit(scaler, X)
                /\ data' = Append(data, transform(fit(scaler, X), X))
                /\ row_src' = row_src \o MaskIdx(run_ids, r)
                /\ r' = r + 1
    /\ UNCHANGED <<labelVars, shiftVars, decodeVars, nbVars, bold_data_, run_ids,
                   normalized_data>>

\* lines 253-254: normalized_data = np.vstack(data)
Normalize_Return ==
    /\ pc = "norm_loop"
    /\ r >= vdc_n_runs
    /\ normalized_data' = Concat(data)
    /\ pc' = "done"
    /\ UNCHANGED <<err, labelVars, shiftVars, decodeVars, nbVars, bold_data_,
                   run_ids, scaler, data, r, row_src>>

NextNorm == Normalize_Enter \/ Normalize_Step \/ Normalize_Return

SpecNorm == InitNorm /\ [][NextNorm]_vars

\* ------------------------------------------------------------------------
\* Properties of normalize
\* ------------------------------------------------------------------------
\* z-scores of the rows G of one run, from these rows alone: mean and
\* variance over G, scale 1 for a feature that is constant in G
ZScoreAlone(G) ==
    [k \in 1..Len(G) |->
        [f \in Features |->
            LET m  == Len(G)
                sm == SumSeq(Column(G, f))
                vn == m * SumSeq(Squares(Column(G, f))) - sm * sm
            IN  [num  |-> m * G[k][f] - sm,
                 den2 |-> IF vn = 0 THEN m * m ELSE vn]]]

\* num / sqrt(den2) denotes the same number in a and b (den2 > 0)
SameValue(a, b) ==
    \/ a.num = 0 /\ b.num = 0
    \/ a.num * b.num > 0 /\ a.num * a.num * b.den2 = b.num * b.num * a.den2

SameRow(za, zb) == \A f \in Features : SameValue(za[f], zb[f])

SameBlock(Za, Zb) ==
    Len(Za) = Len(Zb) /\ \A k \in 1..Len(Za) : SameRow(Za[k], Zb[k])

\* the rank of row k among the rows of its run
RankInRun(ids, k) == Cardinality({ j \in 1..k : ids[j] = ids[k] })

\* the normalized version of input row k
ZRowAlone(k) ==
    ZScoreAlone(SelectRows(bold_data_, run_ids, run_ids[k]))[RankInRun(run_ids, k)]

RunIdsInRange == \A k \in 1..Len(run_ids) : run_ids[k] \in 0..(vdc_n_runs - 1)

\* C8: for run ids within 0..vdc_n_runs-1 in any order, row k of the result
\* is the normalized version of row k of the input.
C8_OriginalRowOrder ==
    (pc = "done" /\ RunIdsInRange) =>
        /\ Len(normalized_data) = Len(bold_data_)
        /\ \A k \in 1..Len(bold_data_) : SameRow(normalized_data[k], ZRowAlone(k))

\* C9: the result has as many rows as the input, and every input row is the
\* source of exactly one row of the result, whatever values run_ids holds.
C9_NoRowLost ==
    pc = "done" =>
        /\ Len(normalized_data) = Len(bold_data_)
        /\ \A k \in 1..Len(bold_data_) :
              Cardinality({ n \in 1..Len(row_src) : row_src[n] = k }) = 1

\* the values of feature f in a block share their scale
CommonScale(Z, f) == \A k \in 1..Len(Z) : Z[k][f].den2 = Z[1][f].den2

\* mean of the values num / sqrt(den2) of feature f is 0
MeanZero(Z, f) ==
    CommonScale(Z, f) /\ SumSeq([k \in 1..Len(Z) |-> Z[k][f].num]) = 0

\* with mean 0: the mean of the squares num^2 / den2 is 1
StdOne(Z, f) ==
    /\ CommonScale(Z, f)
    /\ SumSeq([k \in 1..Len(Z) |-> Z[k][f].num * Z[k][f].num]) = Len(Z) * Z[1][f].den2

AllZero(Z, f) == \A k \in 1..Len(Z) : Z[k][f].num = 0

ConstantIn(G, f) == \A k \in 1..Len(G) : G[k][f] = G[1][f]

\* the block of run r_ (0-based) in the list data
Block(r_) == data[r_ + 1]

\* C10 as stated: in the result, every block has mean 0 and standard deviation 1 in every
\* feature and is the z-score of its own run's rows alone.
C10_MeanZeroStdOne ==
    pc = "done" =>
    \A r_ \in 0..(Len(data) - 1) :
        /\ SameBlock(Block(r_), ZScoreAlone(SelectRows(bold_data_, run_ids, r_)))
        /\ \A f \in Features : MeanZero(Block(r_), f) /\ StdOne(Block(r_), f)

\* C10 (amended): every block transformed so far is a function of its own
\* run's rows alone, with mean 0 in every feature, and standard deviation 1
\* in every feature that is not constant within the run; a feature that is
\* constant within the run (a run of one row included) is all 0.
C10_PerRunZScore ==
    \A r_ \in 0..(Len(data) - 1) :
        /\ SameBlock(Block(r_), ZScoreAlone(SelectRows(bold_data_, run_ids, r_)))
        /\ \A f \in Features :
              /\ MeanZero(Block(r_), f)
              /\ IF ConstantIn(SelectRows(bold_data_, run_ids, r_), f)
                 THEN AllZero(Block(r_), f)
                 ELSE StdOne(Block(r_), f)

\* normalize has returned; a run after the first has a feature that varies
\* within it and another run has a feature that is constant within it
C10_Witness ==
    /\ pc = "done"
    /\ \E r_ \in 1..(vdc_n_runs - 1), f \in Features :
          ~ConstantIn(SelectRows(bold_data_, run_ids, r_), f)
    /\ \E r_ \in 0..(vdc_n_runs - 1), f \in Features :
          ConstantIn(SelectRows(bold_data_, run_ids, r_), f)

\* a value num / sqrt(den2) is a finite number (neither NaN nor Inf)
Finite(z) == z.den2 > 0

\* C11: no value that normalize computes is NaN or Inf; where a feature is
\* constant within a run (a run of one row included) the scale is 1 and the
\* values are 0.
C11_NoNaNInf ==
    /\ \A r_ \in 0..(Len(data) - 1) : \A f \in Features :
          /\ \A k \in 1..Len(Block(r_)) : Finite(Block(r_)[k][f])
          /\ ConstantIn(SelectRows(bold_data_, run_ids, r_), f) =>
                \A k \in 1..Len(Block(r_)) :
                    /\ Block(r_)[k][f].num = 0
                    /\ Block(r_)[k][f].den2 = Len(Block(r_)) * Len(Block(r_))
    /\ \A k \in 1..Len(normalized_data) : \A f \in Features :
          Finite(normalized_data[k][f])

\* normalize has returned for a matrix with a run of exactly one row and a
\* run of several rows in which a feature is constant
C11_Witness ==
    /\ pc = "done"
    /\ Len(normalized_data) > 0
    /\ \E r_ \in 0..(vdc_n_runs - 1) : Len(SelectRows(bold_data_, run_ids, r_)) = 1
    /\ \E r_ \in 0..(vdc_n_runs - 1), f \in Features :
          /\ Len(SelectRows(bold_data_, run_ids, r_)) > 1
          /\ ConstantIn(SelectRows(bold_data_, run_ids, r_), f)

\* ------------------------------------------------------------------------
\* decode
\* ------------------------------------------------------------------------
\* a classifier object before any fit
Unfitted(kind) == [kind |-> kind, fitted |-> FALSE, X |-> <<>>, y |-> <<>>]

RECURSIVE SortedSeq(_)
SortedSeq(S) ==
    IF S = {} THEN <<>>
    ELSE LET m == CHOOSE a \in S : \A b \in S : a <= b
         IN  <<m>> \o SortedSeq(S \ {m})

Values(ids) == { ids[k] : k \in 1..Len(ids) }

\* PredefinedSplit(test_fold).unique_folds: the distinct values in ascending
\* order, without -1 (the entry "never in a test set")
unique_folds(ids) == SortedSeq(Values(ids) \ {-1})

\* test_index: the positions with test_fold == f
test_index(ids, f) == MaskIdx(ids, f)

\* train_index: the other positions
RECURSIVE NotMaskIdxFrom(_, _, _)
NotMaskIdxFrom(ids, f, k) ==
    IF k > Len(ids) THEN <<>>
    ELSE (IF ids[k] # f THEN <<k>> ELSE <<>>) \o NotMaskIdxFrom(ids, f, k + 1)

train_index(ids, f) == NotMaskIdxFrom(ids, f, 1)

\* a[idx] for an index array idx: IndexError unless every index is in bounds
InBounds(a, idx) == \A k \in 1..Len(idx) : idx[k] <= Len(a)

Take(a, idx) == [k \in 1..Len(idx) |-> a[idx[k]]]

\* model.fit(X_train, y_train): the exception it raises, "" when none
FitError(obj, Xt, yt) ==
    IF /\ obj.kind = "validating"
       /\ \/ Len(Xt) = 0
          \/ Len(Xt) # Len(yt)
          \/ Cardinality(Values(yt)) < 2
    THEN "ValueError" ELSE ""

\* the fit replaces whatever was fitted before; the fitted state is kept as
\* the training set it was computed from
fit_model(obj, Xt, yt) == [obj EXCEPT !.fitted = TRUE, !.X = Xt, !.y = yt]

\* model.score(X_test, y_test): the exception it raises, "" when none
ScoreError(obj, Xs, ys) ==
    IF obj.kind = "validating" /\ (Len(Xs) = 0 \/ Len(Xs) # Len(ys))
    THEN "ValueError" ELSE ""

\* the accuracy of the classifier as fitted, on the test rows; kept as the
\* data it is computed from
score_model(obj, Xs, ys) == [fit_X |-> obj.X, fit_y |-> obj.y, X_test |-> Xs, y_test |-> ys]

InitDecode ==
    /\ pc = "decode"
    /\ err = ""
    /\ LabelIdle
    /\ ShiftIdle
    /\ NormIdle
    /\ NbIdle
    /\ \E n \in 0..MaxRows, sh \in Shapes :
          /\ n + sh[1] \in 0..MaxRows
          /\ n + sh[2] \in 0..MaxRows
          /\ cv_ids \in [1..n -> FoldIds]
          /\ X_arg = [k \in 1..(n + sh[1]) |-> k]
          /\ y_arg \in [1..(n + sh[2]) -> CondLabels]
    /\ model = 1
    /\ \E kind \in Kinds : heap = <<Unfitted(kind)>>
    /\ models = <<>>
    /\ scores = <<>>
    /\ ps = <<>>
    /\ fold_i = 0
    /\ splits = <<>>

\* lines 269-272: the two lists, the split, entry of the loop
Decode_Enter ==
    /\ pc = "decode"
    /\ pc' = "fold_loop"
    /\ scores' = <<>>
    /\ models' = <<>>
    /\ ps' = unique_folds(cv_ids)
    /\ fold_i' = 0
    /\ splits' = <<>>
    /\ UNCHANGED <<err, labelVars, shiftVars, normVars, nbVars, X_arg, y_arg,
                   cv_ids, model, heap>>

\* lines 272-282: one pass of the loop over ps.split()
Decode_Fold ==
    /\ pc = "fold_loop"
    /\ fold_i < Len(ps)
    /\ LET f  == ps[fold_i + 1]
           tr == train_index(cv_ids, f)
           te == test_index(cv_ids, f)
       IN  IF ~(InBounds(X_arg, tr) /\ InBounds(X_arg, te)
                  /\ InBounds(y_arg, tr) /\ InBounds(y_arg, te))
           THEN /\ pc' = "error"
                /\ err' = "IndexError"
                /\ UNCHANGED <<heap, models, scores, fold_i, splits>>
           ELSE LET X_train == Take(X_arg, tr)
                    X_test  == Take(X_arg, te)
                    y_train == Take(y_arg, tr)
                    y_test  == Take(y_arg, te)
                    fitted  == fit_model(heap[model], X_train, y_train)
                IN  IF FitError(heap[model], X_train, y_train) # ""
                    THEN /\ pc' = "error"
                         /\ err' = FitError(heap[model], X_train, y_train)
                         /\ UNCHANGED <<heap, models, scores, fold_i, splits>>
                    ELSE IF ScoreError(fitted, X_test, y_test) # ""
                    THEN /\ pc' = "error"
                         /\ err' = ScoreError(fitted, X_test, y_test)
                         /\ heap' = [heap EXCEPT ![model] = fitted]
                         /\ UNCHANGED <<models, scores, fold_i, splits>>
                    ELSE /\ pc' = "fold_loop"
                         /\ err' = ""
                         /\ heap' = [heap EXCEPT ![model] = fitted]
                         /\ models' = Append(models, model)
                         /\ scores' = Append(scores, score_model(fitted, X_test, y_test))
                         /\ splits' = Append(splits, [fold |-> f, train |-> tr, test |-> te])
                         /\ fold_i' = fold_i + 1
    /\ UNCHANGED <<labelVars, shiftVars, normVars, nbVars, X_arg, y_arg, cv_ids,
                   model, ps>>

\* line 283
Decode_Return ==
    /\ pc = "fold_loop"
    /\ fold_i >= Len(ps)
    /\ pc' = "decoded"
    /\ UNCHANGED <<err, labelVars, shiftVars, normVars, nbVars, decodeVars>>

NextDecode == Decode_Enter \/ Decode_Fold \/ Decode_Return

SpecDecode == InitDecode /\ [][NextDecode]_vars

\* ------------------------------------------------------------------------
\* properties of decode
\* ------------------------------------------------------------------------
SameLengths == Len(X_arg) = Len(cv_ids) /\ Len(y_arg) = Len(cv_ids)

Elems(idx) == { idx[k] : k \in 1..Len(idx) }

Rows(f) == { k \in 1..Len(cv_ids) : cv_ids[k] = f }

OtherRows(f) == { k \in 1..Len(cv_ids) : cv_ids[k] # f }

\* the distinct values of cv_ids in ascending order, -1 among them
DistinctFolds == SortedSeq(Values(cv_ids))

\* C12: for every cv_ids (any integers, -1 included) each fold trains on the
\* rows with cv_ids != f and tests on the rows with cv_ids == f, no row is on
\* both sides, and the test folds partition the rows: every row is a test row
\* of exactly one fold.
C12_FoldsPartition ==
    (pc = "decoded" /\ SameLengths) =>
        /\ \A k \in 1..Len(splits) :
              /\ Elems(splits[k].train) = OtherRows(splits[k].fold)
              /\ Elems(splits[k].test) = Rows(splits[k].fold)
              /\ Elems(splits[k].train) \cap Elems(splits[k].test) = {}
        /\ \A row \in 1..Len(cv_ids) :
              Cardinality({ k \in 1..Len(splits) : row \in Elems(splits[k].test) }) = 1

\* C13: decode returns two parallel sequences with one entry per distinct
\* value of cv_ids, in ascending order of the fold id: scores[i] is the
\* accuracy on the rows of the i-th smallest fold, models[i] is the classifier
\* as trained with that fold held out.
C13_ParallelResults ==
    (pc = "decoded" /\ SameLengths) =>
        /\ Len(scores) = Len(DistinctFolds)
        /\ Len(models) = Len(DistinctFolds)
        /\ \A k \in 1..Len(scores) : k <= Len(DistinctFolds) =>
              /\ Elems(scores[k].X_test) = Rows(DistinctFolds[k])
              /\ Elems(scores[k].fit_X) = OtherRows(DistinctFolds[k])
        /\ \A k \in 1..Len(models) : k <= Len(DistinctFolds) =>
              /\ heap[models[k]].fitted
              /\ Elems(heap[models[k]].X) = OtherRows(DistinctFolds[k])

\* C14: every fold trains a classifier object of its own: the entries of
\* models are pairwise distinct objects and models[i] still holds the fit of
\* fold i when decode returns.
C14_FreshModelPerFold ==
    pc = "decoded" =>
        /\ \A j, k \in 1..Len(models) : j # k => models[j] # models[k]
        /\ \A k \in 1..Len(models) :
              /\ heap[models[k]].fitted
              /\ heap[models[k]].X = Take(X_arg, splits[k].train)
              /\ heap[models[k]].y = Take(y_arg, splits[k].train)

\* C15: when X, y and cv_ids do not have the same number of rows, decode
\* fails with an error: it does not return, and no fold is trained and
\* scored on a part of the rows.
C15_LengthMismatchRejected ==
    ~SameLengths => (pc # "decoded" /\ splits = <<>>)

\* C16: decode fails with an error when the training set of a fold is empty
\* (cv_ids holds one distinct value), whatever the classifier: no fold with
\* an empty training set is fitted and scored, and decode does not return.
C16_EmptyTrainRejected ==
    (SameLengths /\ Len(cv_ids) > 0 /\ Cardinality(Values(cv_ids)) = 1) =>
        /\ pc # "decoded"
        /\ \A k \in 1..Len(splits) : splits[k].train # <<>>

\* ------------------------------------------------------------------------
\* the two exercise cells: normalize, mask, decode
\* ------------------------------------------------------------------------
\* a[labels != c] : the entries of a at the positions where labels is not c
RECURSIVE NotLabelFrom(_, _, _, _)
NotLabelFrom(a, lab, c, k) ==
    IF k > Len(a) THEN <<>>
    ELSE (IF lab[k] # c THEN <<a[k]>> ELSE <<>>) \o NotLabelFrom(a, lab, c, k + 1)

MaskNot(a, lab, c) == NotLabelFrom(a, lab, c, 1)

\* the data of the two regions, one row per labelled sample
bold_data_FFA(n) == [k \in 1..n |-> <<k % 2, 1>>]

bold_data_PPA(n) == [k \in 1..n |-> <<1, (k + 1) % 2>>]

NonDecreasing(a) == \A k \in 1..(Len(a) - 1) : a[k] <= a[k + 1]

\* the state before the first exercise cell: labels and run_ids are parallel
\* and in run order, svc is the unfitted LinearSVC of line 232
InitExercise ==
    /\ pc = "normalize"
    /\ err = ""
    /\ LabelIdle
    /\ ShiftIdle
    /\ \E n \in 0..MaxRows :
          /\ labels \in [1..n -> StimLabels]
          /\ run_ids \in { a \in [1..n -> 0..(vdc_n_runs - 1)] : NonDecreasing(a) }
          /\ bold_data_ = bold_data_FFA(n)
    /\ scaler = StandardScaler
    /\ data = <<>>
    /\ r = 0
    /\ normalized_data = <<>>
    /\ row_src = <<>>
    /\ X_arg = <<>>
    /\ y_arg = <<>>
    /\ cv_ids = <<>>
    /\ model = 1
    /\ heap = <<Unfitted("validating")>>
    /\ models = <<>>
    /\ scores = <<>>
    /\ ps = <<>>
    /\ fold_i = 0
    /\ splits = <<>>
    /\ run_ids_so = <<>>
    /\ run_ids_fo = <<>>
    /\ cell = 1

\* lines 339-348: the masks of the first cell and its call of decode
Exercise1_Decode ==
    /\ cell = 1
    /\ pc = "done"
    /\ IF Len(labels) # Len(normalized_data) \/ Len(labels) # Len(run_ids)
       THEN /\ pc' = "error"
            /\ err' = "IndexError"
            /\ UNCHANGED <<X_arg, y_arg, cv_ids, run_ids_so>>
       ELSE /\ pc' = "decode"
            /\ err' = ""
            /\ run_ids_so' = MaskNot(run_ids, labels, 1)
            /\ X_arg' = MaskNot(normalized_data, labels, 1)
            /\ y_arg' = MaskNot(labels, labels, 1)
            /\ cv_ids' = MaskNot(run_ids, labels, 1)
    /\ UNCHANGED <<labelVars, shiftVars, normVars, labels, run_ids_fo, cell,
                   model, heap, models, scores, ps, fold_i, splits>>

\* line 385: the second cell, run after the first, calls normalize on the
\* data of the other region
Exercise2_Normalize ==
    /\ cell = 1
    /\ pc = "decoded"
    /\ cell' = 2
    /\ pc' = "normalize"
    /\ bold_data_' = bold_data_PPA(Len(labels))
    /\ row_src' = <<>>
    /\ UNCHANGED <<err, labelVars, shiftVars, decodeVars, labels, run_ids_so,
                   run_ids_fo, run_ids, scaler, data, r, normalized_data>>

\* lines 388-397: the masks of the second cell and its call of decode
Exercise2_Decode ==
    /\ cell = 2
    /\ pc = "done"
    /\ IF Len(labels) # Len(normalized_data) \/ Len(labels) # Len(run_ids)
       THEN /\ pc' = "error"
            /\ err' = "IndexError"
            /\ UNCHANGED <<X_arg, y_arg, cv_ids, run_ids_fo>>
       ELSE /\ pc' = "decode"
            /\ err' = ""
            /\ run_ids_fo' = MaskNot(run_ids, labels, 2)
            /\ X_arg' = MaskNot(normalized_data, labels, 2)
            /\ y_arg' = MaskNot(labels, labels, 2)
            /\ cv_ids' = run_ids_so
    /\ UNCHANGED <<labelVars, shiftVars, normVars, labels, run_ids_so, cell,
                   model, heap, models, scores, ps, fold_i, splits>>

NextExercise ==
    \/ Normalize_Enter
    \/ Normalize_Step
    \/ Normalize_Return
    \/ Exercise1_Decode
    \/ Exercise2_Normalize
    \/ Exercise2_Decode
    \/ Decode_Enter
    \/ Decode_Fold
    \/ Decode_Return

SpecExercise == InitExercise /\ [][NextExercise]_vars

\* the row mask of a cell: labels != 1 in the first, labels != 2 in the second
Removed == IF cell = 1 THEN 1 ELSE 2

InDecode == pc \in {"decode", "fold_loop", "decoded"}

\* C17: in both exercises the fold key handed to decode is run_ids filtered
\* with the row mask that filtered X and the labels of that call.
C17_FoldKeySameMask ==
    (cell \in {1, 2} /\ InDecode) =>
        /\ X_arg = MaskNot(normalized_data, labels, Removed)
        /\ y_arg = MaskNot(labels, labels, Removed)
        /\ cv_ids = MaskNot(run_ids, labels, Removed)

\* ------------------------------------------------------------------------
\* the alignment cell: label2TR, shift_timing, reshape_data, then normalize
\* ------------------------------------------------------------------------
\* line 196
shift_size == PyIntDiv(vdc_hrf_lag, vdc_TR)

\* the scan counts per run of the loaded data
PipeTRsRun == {2, 4}

\* np.nonzero(v): the positions of the nonzero entries, ascending
RECURSIVE NonzeroFrom(_, _)
NonzeroFrom(v, p) ==
    IF p >= Size(v) THEN <<>>
    ELSE (IF v[p] # 0 THEN <<p>> ELSE <<>>) \o NonzeroFrom(v, p + 1)

np_nonzero(v) == NonzeroFrom(v, 0)

\* the sample of one region at scan t
epi_sample(t) == <<t % 2, 1>>

\* reshape_data (utils): the samples and the labels at the labelled scans
reshape_data_rows(shifted) ==
    [k \in 1..Len(np_nonzero(shifted)) |-> epi_sample(np_nonzero(shifted)[k])]

reshape_data_labels(shifted) ==
    [k \in 1..Len(np_nonzero(shifted)) |-> shifted[np_nonzero(shifted)[k]]]

\* the state at the call of label2TR in line 206
InitPipe ==
    /\ pc = "label2TR"
    /\ err = ""
    /\ ShiftIdle
    /\ NormIdle
    /\ DecodeIdle
    /\ NbIdle
    /\ num_runs = vdc_n_runs
    /\ TR = vdc_TR
    /\ TRs_run \in PipeTRsRun
    /\ stim_label \in EventLists(vdc_n_runs)
    /\ events_run = 0
    /\ run = 0
    /\ i = 0
    /\ stim_label_TR = <<>>
    /\ writes = <<>>

\* lines 209-217 and 235-336: the rest of the cell after label2TR has
\* returned, the run ids, and the call of normalize
Pipe_Align ==
    /\ cell = 0
    /\ pc = "done"
    /\ label_TR' = stim_label_TR
    /\ TR_shift_size' = shift_size
    /\ label_TR_shifted' = shift_timing(stim_label_TR, shift_size)
    /\ bold_data_' = reshape_data_rows(shift_timing(stim_label_TR, shift_size))
    /\ labels' = reshape_data_labels(shift_timing(stim_label_TR, shift_size))
    /\ run_ids' = [k \in 1..Len(stim_label) |-> stim_label[k].run - 1]
    /\ cell' = 1
    /\ pc' = "normalize"
    /\ UNCHANGED <<err, labelVars, decodeVars, run_ids_so, run_ids_fo, scaler,
                   data, r, normalized_data, row_src>>

NextPipe ==
    \/ Label2TR_Enter
    \/ Label2TR_Step
    \/ Label2TR_Return
    \/ Pipe_Align
    \/ Normalize_Enter
    \/ Normalize_Step
    \/ Normalize_Return

SpecPipe == InitPipe /\ [][NextPipe]_vars

\* the scan of event k on the time line of all runs
EventTR(k) == (stim_label[k].run - 1) * TRs_run + PyIntDiv(stim_label[k].onset, TR)

\* C18: for every valid event list, after label2TR, the shift by shift_size
\* and the reduction to the labelled rows, there are as many labelled rows as
\* events, the k-th labelled row is the sample of the k-th event (its scan,
\* shift_size later) with that event's label and run id, and row k of the
\* result of normalize is that sample.
C18_RowsAlignedWithEvents ==
    (cell = 1 /\ EvenRuns /\ OnsetsInRange /\ Len(stim_label) > 0) =>
        /\ pc # "error"
        /\ Len(labels) = Len(stim_label)
        /\ Len(bold_data_) = Len(stim_label)
        /\ \A k \in 1..Len(labels) : k <= Len(stim_label) =>
              /\ np_nonzero(label_TR_shifted)[k] = EventTR(k) + shift_size
              /\ labels[k] = stim_label[k].cond
              /\ run_ids[k] = stim_label[k].run - 1
        /\ pc = "done" =>
              /\ Len(normalized_data) = Len(stim_label)
              /\ \A k \in 1..Len(row_src) : row_src[k] = k

====
